---- MODULE Spec2Model ----
(***************************************************************************)
(* Model of notebooks/part-1-analyze-customer-data.ipynb: the customer      *)
(* cleansing / income enrichment pipeline and its three user-defined        *)
(* functions (getNumericVal, deriveGender, extractZIPCode).                 *)
(*                                                                         *)
(* Python values are tagged tuples: None, a str (a sequence of one-         *)
(* character strings) or an int.  A call either returns a value or raises.  *)
(* A table (Spark DataFrame) is a sequence of rows; a row is a function     *)
(* from column names to Python values, so DOMAIN row is the table's schema. *)
(***************************************************************************)
EXTENDS Integers, Sequences, FiniteSets, TLC

VARIABLES
    arg,             \* the value a user-defined function is called with
    fn,              \* the user-defined function under call ("" in a pipeline run)
    ret,             \* the outcome of that call
    pc,              \* the notebook cell the pipeline is about to run
    raw_df,          \* the loaded customer/order table
    customer_df,     \* the cleansed customer table
    us_customer_df,  \* the US customers, later the enriched table
    income_df,       \* the census income table
    shown            \* the table last handed to display()

vars == <<arg, fn, ret, pc, raw_df, customer_df, us_customer_df, income_df, shown>>
udfVars == <<arg, fn, ret>>
pipeVars == <<pc, raw_df, customer_df, us_customer_df, income_df, shown>>

----------------------------------------------------------------------------
(* Bounds of the model. *)

\* longest string drawn freely over AgeChars
MaxLen == 4
\* longest run of characters put before a structured input
MaxLead == 1
\* longest run of characters put after a structured input
MaxTail == 2
\* longest digit run of a structured age input
MaxDigits == 2
\* most rows of a loaded customer/order table
MaxRows == 2
\* most rows of a loaded income table
MaxIncomeRows == 2

----------------------------------------------------------------------------
(* Python values and call outcomes. *)

None == <<"None">>
PyStr(s) == <<"str", s>>
PyInt(n) == <<"int", n>>
IsStr(v) == v[1] = "str"
Chars(v) == v[2]

Return(v) == <<"return", v>>
Raise(e) == <<"raise", e>>
Raised(o) == o[1] = "raise"
Value(o) == o[2]

\* every string of at most n characters over the alphabet cs
Strs(cs, n) == UNION {[1..k -> cs] : k \in 0..n}
\* every string of lo..hi characters over the alphabet cs
StrsBetween(cs, lo, hi) == UNION {[1..k -> cs] : k \in lo..hi}

DigitChars == <<"0", "1", "2", "3", "4", "5", "6", "7", "8", "9">>
IsDigit(c) == \E i \in 1..10 : DigitChars[i] = c
DigitVal(c) == (CHOOSE i \in 1..10 : DigitChars[i] = c) - 1
AllDigits(s) == \A i \in 1..Len(s) : IsDigit(s[i])

RECURSIVE DecimalValue(_)
DecimalValue(s) ==
    IF Len(s) = 0 THEN 0
    ELSE 10 * DecimalValue(SubSeq(s, 1, Len(s) - 1)) + DigitVal(s[Len(s)])

\* the characters int() and str.strip() skip at both ends
Whitespace == {" ", "\t", "\n", "\r", "\f"}

RECURSIVE LStrip(_)
LStrip(s) == IF Len(s) > 0 /\ s[1] \in Whitespace THEN LStrip(Tail(s)) ELSE s
RECURSIVE RStrip(_)
RStrip(s) ==
    IF Len(s) > 0 /\ s[Len(s)] \in Whitespace THEN RStrip(SubSeq(s, 1, Len(s) - 1)) ELSE s
Strip(s) == RStrip(LStrip(s))

\* Python 3.5 int(x) for x a str or None: surrounding whitespace is skipped,
\* one sign is allowed, then one or more decimal digits; anything else is a
\* ValueError, and None is a TypeError.
int(v) ==
    IF ~IsStr(v) THEN Raise("TypeError")
    ELSE LET t == Strip(Chars(v))
             signed == Len(t) > 0 /\ t[1] \in {"+", "-"}
             body == IF signed THEN Tail(t) ELSE t
             n == DecimalValue(body)
         IN IF Len(body) > 0 /\ AllDigits(body)
            THEN Return(PyInt(IF signed /\ t[1] = "-" THEN 0 - n ELSE n))
            ELSE Raise("ValueError")

\* the lengths of the prefixes of s after which the regex anchor $ matches:
\* the whole string, and the string without one final newline
DollarPositions(s) ==
    {Len(s)} \cup (IF Len(s) > 0 /\ s[Len(s)] = "\n" THEN {Len(s) - 1} ELSE {})

NoMatch == <<"nomatch">>
Group1(s) == <<"match", s>>
Matched(m) == m[1] = "match"

SetMax(S) == CHOOSE x \in S : \A y \in S : y <= x

\* re.match('^age\-(\d+)$', col): group 1 of the match, NoMatch, or a
\* TypeError when col is not a string
AgePrefix == <<"a", "g", "e", "-">>
reMatchAge(v) ==
    IF ~IsStr(v) THEN Raise("TypeError")
    ELSE LET s == Chars(v)
             ends == {e \in DollarPositions(s) :
                         /\ e >= Len(AgePrefix) + 1
                         /\ SubSeq(s, 1, Len(AgePrefix)) = AgePrefix
                         /\ AllDigits(SubSeq(s, Len(AgePrefix) + 1, e))}
         IN IF ends = {} THEN Return(NoMatch)
            ELSE Return(Group1(SubSeq(s, Len(AgePrefix) + 1, SetMax(ends))))

\* getNumericVal(col)
getNumericVal(col) ==
    LET direct == int(col)
    IN IF ~Raised(direct) THEN direct
       ELSE IF Value(direct) # "ValueError" THEN direct
       ELSE LET match == reMatchAge(col)
            IN IF Raised(match) THEN match
               ELSE IF Matched(Value(match))
               THEN LET inner == int(PyStr(Value(match)[2]))
                    IN IF ~Raised(inner) THEN inner
                       ELSE IF Value(inner) = "ValueError" THEN Return(None)
                       ELSE inner
               ELSE Return(None)

\* deriveGender(col): membership in a Python list compares with ==, which is
\* defined for None as well
MaleSalutations == {PyStr(<<"M", "r", ".">>), PyStr(<<"M", "a", "s", "t", "e", "r", ".">>)}
FemaleSalutations == {PyStr(<<"M", "r", "s", ".">>), PyStr(<<"M", "i", "s", "s", ".">>)}
male == PyStr(<<"m", "a", "l", "e">>)
female == PyStr(<<"f", "e", "m", "a", "l", "e">>)
unknown == PyStr(<<"u", "n", "k", "n", "o", "w", "n">>)
\* deriveGender with 'Master.' left out of the first list
deriveGenderNoMaster(col) ==
    IF col = PyStr(<<"M", "r", ".">>) THEN Return(male)
    ELSE IF col \in FemaleSalutations THEN Return(female)
    ELSE Return(unknown)
deriveGender(col) ==
    IF col \in MaleSalutations THEN Return(male)
    ELSE IF col \in FemaleSalutations THEN Return(female)
    ELSE Return(unknown)

\* re.match('^\d+US(\d\d\d\d\d)$', col): group 1 of the match, NoMatch, or a
\* TypeError when col is not a string
ZipLen == 5
CountryMark == <<"U", "S">>
reMatchGeo(v) ==
    IF ~IsStr(v) THEN Raise("TypeError")
    ELSE LET s == Chars(v)
             tailLen == Len(CountryMark) + ZipLen
             ends == {e \in DollarPositions(s) :
                         /\ e >= 1 + tailLen
                         /\ AllDigits(SubSeq(s, 1, e - tailLen))
                         /\ SubSeq(s, e - tailLen + 1, e - ZipLen) = CountryMark
                         /\ AllDigits(SubSeq(s, e - ZipLen + 1, e))}
         IN IF ends = {} THEN Return(NoMatch)
            ELSE LET e == SetMax(ends)
                 IN Return(Group1(SubSeq(s, e - ZipLen + 1, e)))

\* extractZIPCode(col)
extractZIPCode(col) ==
    LET m == reMatchGeo(col)
    IN IF Raised(m) THEN m
       ELSE IF Matched(Value(m)) THEN Return(PyStr(Value(m)[2]))
       ELSE Return(None)

----------------------------------------------------------------------------
(* The values the three functions are called with: what a nullable string   *)
(* column (AGE, GenderCode, GEOID) can hold.                                *)

AgeChars == {"0", "3", "-", "+", " ", "\n", "a"}
LeadChars == {" ", "x"}
TailChars == {"\n", "x"}
AgeWords == {AgePrefix, <<"a", "g", "e">>, <<"A", "g", "e", "-">>}
AgeInputs ==
    {PyStr(s) : s \in Strs(AgeChars, MaxLen)}
    \cup {PyStr(l \o w \o d \o t) :
            l \in Strs(LeadChars, MaxLead), w \in AgeWords,
            d \in Strs({"0", "3"}, MaxDigits), t \in Strs(TailChars, MaxTail)}

Salutations ==
    {Chars(v) : v \in MaleSalutations \cup FemaleSalutations}
    \cup {<<"D", "r", ".">>, <<"m", "r", ".">>, <<"M", "r">>, <<"M", "s", ".">>,
          <<"m", "a", "l", "e">>}
GenderInputs ==
    {PyStr(s) : s \in Strs({"M", "r", "s", "."}, MaxLen)}
    \cup {PyStr(l \o w \o t) :
            l \in Strs(LeadChars, MaxLead), w \in Salutations,
            t \in Strs(TailChars, MaxTail)}

GeoMarks == {CountryMark, <<"u", "s">>}
GeoInputs ==
    {PyStr(s) : s \in Strs({"8", "U", "S"}, MaxLen)}
    \cup {PyStr(l \o a \o w \o z \o t) :
            l \in Strs(LeadChars, MaxLead),
            a \in {<<>>, <<"8">>, <<"8", "6">>},
            w \in GeoMarks,
            z \in StrsBetween({"0", "1"}, ZipLen - 1, ZipLen + 1),
            t \in Strs(TailChars, MaxTail)}

UdfNames == {"getNumericVal", "deriveGender", "extractZIPCode"}
UdfInputs(f) ==
    {None} \cup (IF f = "getNumericVal" THEN AgeInputs
                 ELSE IF f = "deriveGender" THEN GenderInputs
                 ELSE GeoInputs)

NotCalled == <<"notcalled">>

----------------------------------------------------------------------------
(* Calling one user-defined function on one value. *)

PipelineIdle ==
    /\ pc = "idle"
    /\ raw_df = <<>>
    /\ customer_df = <<>>
    /\ us_customer_df = <<>>
    /\ income_df = <<>>
    /\ shown = <<>>

InitUDF ==
    /\ fn \in UdfNames
    /\ arg \in UdfInputs(fn)
    /\ ret = NotCalled
    /\ PipelineIdle

CallGetNumericVal ==
    /\ fn = "getNumericVal" /\ ret = NotCalled
    /\ ret' = getNumericVal(arg)
    /\ UNCHANGED <<arg, fn>>
    /\ UNCHANGED pipeVars

CallDeriveGender ==
    /\ fn = "deriveGender" /\ ret = NotCalled
    /\ ret' = deriveGender(arg)
    /\ UNCHANGED <<arg, fn>>
    /\ UNCHANGED pipeVars

CallExtractZIPCode ==
    /\ fn = "extractZIPCode" /\ ret = NotCalled
    /\ ret' = extractZIPCode(arg)
    /\ UNCHANGED <<arg, fn>>
    /\ UNCHANGED pipeVars

NextUDF == CallGetNumericVal \/ CallDeriveGender \/ CallExtractZIPCode

SpecUDF == InitUDF /\ [][NextUDF]_vars

----------------------------------------------------------------------------
(* Spark DataFrame operations.  A table is a sequence of rows over one      *)
(* schema; Spark promises no row order, and no operation below reads it.    *)

RowsOf(df) == {df[i] : i \in 1..Len(df)}
Count(df, row) == Cardinality({i \in 1..Len(df) : df[i] = row})

\* df.select(cols)
select(df, cols) == [i \in 1..Len(df) |-> [c \in cols |-> df[i][c]]]

\* dropDuplicates keyed on CUST_ID alone: one row of every customer id
RECURSIVE dropDuplicatesById(_)
dropDuplicatesById(df) ==
    IF Len(df) = 0 THEN <<>>
    ELSE LET init == dropDuplicatesById(SubSeq(df, 1, Len(df) - 1))
             last == df[Len(df)]
         IN IF \E r \in RowsOf(init) : r["CUST_ID"] = last["CUST_ID"]
            THEN init ELSE Append(init, last)

\* df.dropDuplicates(): one row of every group of fully equal rows
RECURSIVE dropDuplicates(_)
dropDuplicates(df) ==
    IF Len(df) = 0 THEN <<>>
    ELSE LET init == dropDuplicates(SubSeq(df, 1, Len(df) - 1))
             last == df[Len(df)]
         IN IF last \in RowsOf(init) THEN init ELSE Append(init, last)

\* the row with column name set to v: a new column when the row has none of
\* that name, the old one replaced otherwise
SetColumn(row, name, v) ==
    [c \in DOMAIN row \cup {name} |-> IF c = name THEN v ELSE row[c]]

\* the row without column name
DropColumn(row, name) == [c \in DOMAIN row \ {name} |-> row[c]]

\* df.drop(name)
drop(df, name) == [i \in 1..Len(df) |-> DropColumn(df[i], name)]

\* df.withColumnRenamed(old, new)
withColumnRenamed(df, old, new) ==
    [i \in 1..Len(df) |->
        [c \in (DOMAIN df[i] \ {old}) \cup {new} |->
            IF c = new THEN df[i][old] ELSE df[i][c]]]

\* the filter with its condition inverted
filterNot(df, col, lit) == SelectSeq(df, LAMBDA row : row[col] # None /\ row[col] # lit)
\* df.filter("col = 'lit'"): SQL equality, unknown (not true) on a null
filter(df, col, lit) == SelectSeq(df, LAMBDA row : row[col] # None /\ row[col] = lit)

\* the join condition with Python's equality, under which None == None
MatchesNullEqual(row, right, lc, rc) == SelectSeq(right, LAMBDA r : row[lc] = r[rc])
\* the rows of right that a left row joins with under left.lc == right.rc
\* (SQL equality: a null equals nothing)
Matches(row, right, lc, rc) ==
    SelectSeq(right, LAMBDA r : row[lc] # None /\ r[rc] # None /\ row[lc] = r[rc])

\* a left row extended with the columns of a right row
Merge(row, r) == [c \in DOMAIN row \cup DOMAIN r |-> IF c \in DOMAIN r THEN r[c] ELSE row[c]]

\* a left row extended with the right columns, all null
NullExtend(row, rcols) ==
    [c \in DOMAIN row \cup rcols |-> IF c \in rcols THEN None ELSE row[c]]

\* the same join keeping one match per left row: no fan-out
RECURSIVE joinFirstMatch(_, _, _, _, _)
joinFirstMatch(left, right, lc, rc, rcols) ==
    IF Len(left) = 0 THEN <<>>
    ELSE LET row == left[Len(left)]
             ms == Matches(row, right, lc, rc)
             out == IF Len(ms) = 0 THEN NullExtend(row, rcols) ELSE Merge(row, ms[1])
         IN Append(joinFirstMatch(SubSeq(left, 1, Len(left) - 1), right, lc, rc, rcols),
                   out)

\* the same join as an inner join: a left row without a match is left out
RECURSIVE joinInner(_, _, _, _, _)
joinInner(left, right, lc, rc, rcols) ==
    IF Len(left) = 0 THEN <<>>
    ELSE LET row == left[Len(left)]
             ms == Matches(row, right, lc, rc)
         IN joinInner(SubSeq(left, 1, Len(left) - 1), right, lc, rc, rcols)
                \o [i \in 1..Len(ms) |-> Merge(row, ms[i])]

\* left.join(right, left.lc == right.rc, 'left_outer'); rcols is right's schema
RECURSIVE join(_, _, _, _, _)
join(left, right, lc, rc, rcols) ==
    IF Len(left) = 0 THEN <<>>
    ELSE LET row == left[Len(left)]
             ms == Matches(row, right, lc, rc)
             out == IF Len(ms) = 0 THEN <<NullExtend(row, rcols)>>
                    ELSE [i \in 1..Len(ms) |-> Merge(row, ms[i])]
         IN join(SubSeq(left, 1, Len(left) - 1), right, lc, rc, rcols) \o out

----------------------------------------------------------------------------
(* The notebook's cells. *)

CustomerColumns ==
    {"CUST_ID", "CUSTNAME", "ADDRESS1", "ADDRESS2", "CITY", "POSTAL_CODE",
     "POSTAL_CODE_PLUS4", "STATE", "COUNTRY_CODE", "EMAIL_ADDRESS", "PHONE_NUMBER",
     "AGE", "GenderCode", "GENERATION", "NATIONALITY", "NATIONAL_ID",
     "DRIVER_LICENSE"}
IncomeColumns == {"GEOID", "MEDIAN_INCOME_IN_ZIP", "ZIP"}
Generations ==
    {PyStr(<<"B", "a", "b", "y", "_", "B", "o", "o", "m", "e", "r", "s">>),
     PyStr(<<"G", "e", "n", "_", "X">>), PyStr(<<"G", "e", "n", "_", "Y">>),
     PyStr(<<"G", "e", "n", "_", "Z">>)}
US == PyStr(<<"U", "S">>)

\* the rows on which getNumericVal raises
AgeRaisesOn(df) == {i \in 1..Len(df) : Raised(getNumericVal(df[i]["AGE"]))}
\* the rows on which extractZIPCode raises
ZipRaisesOn(df) == {i \in 1..Len(df) : Raised(extractZIPCode(df[i]["GEOID"]))}

\* customer_df = raw_df.select(...17 columns...).dropDuplicates()
SelectCustomers(raw) == dropDuplicates(select(raw, CustomerColumns))
\* customer_df.withColumn("AGE", toNumericValUDF(customer_df["AGE"]))
CleanseAgeOf(df) ==
    [i \in 1..Len(df) |-> SetColumn(df[i], "AGE", Value(getNumericVal(df[i]["AGE"])))]
\* customer_df.withColumn("GENDER", deriveGenderUDF(customer_df["GenderCode"]))
DeriveGenderOf(df) ==
    [i \in 1..Len(df) |->
        SetColumn(df[i], "GENDER", Value(deriveGender(df[i]["GenderCode"])))]
\* the filter with the country code in lower case
FilterUSLowerCase(df) == filter(df, "COUNTRY_CODE", PyStr(<<"u", "s">>))
\* customer_df.filter("COUNTRY_CODE = 'US'")
FilterUSOf(df) == filter(df, "COUNTRY_CODE", US)
\* income_df.select('GEOID', 'B19049e1').withColumnRenamed(...).withColumn("ZIP", ...)
CleanseIncomeOf(df) ==
    LET renamed == withColumnRenamed(select(df, {"GEOID", "B19049e1"}), "B19049e1",
                                     "MEDIAN_INCOME_IN_ZIP")
    IN [i \in 1..Len(df) |->
           SetColumn(renamed[i], "ZIP", Value(extractZIPCode(df[i]["GEOID"])))]
\* the join without the two drops
JoinIncomeKeepKeys(left, right) == join(left, right, "POSTAL_CODE", "ZIP", IncomeColumns)
\* us_customer_df.join(income_df, POSTAL_CODE == ZIP, 'left_outer').drop('GEOID').drop('ZIP')
JoinIncomeOf(left, right) ==
    drop(drop(join(left, right, "POSTAL_CODE", "ZIP", IncomeColumns), "GEOID"), "ZIP")

----------------------------------------------------------------------------
(* The tables the two loads can deliver.  Rows are drawn from a product of  *)
(* field values; a table lists its rows in the order of that product, the   *)
(* row order being immaterial.                                              *)

AgeOpts == <<PyStr(<<"3", "3">>), PyStr(<<"a", "g", "e", "-", "3", "3">>), None>>
CountryOpts == <<US, PyStr(<<"F", "R">>)>>
PostalOpts == <<PyStr(<<"0", "1", "0", "0", "1">>), None>>
\* ORDER_ID stands for the order columns of the file, which the customer
\* columns leave out
OrderOpts == <<PyInt(1), PyInt(2)>>
\* GENERATION varies along with POSTAL_CODE (one generation per address), which
\* keeps the number of rows of the product
GenerationOpts ==
    <<PyStr(<<"B", "a", "b", "y", "_", "B", "o", "o", "m", "e", "r", "s">>),
      PyStr(<<"G", "e", "n", "_", "X">>)>>
NumRawRows == Len(AgeOpts) * Len(CountryOpts) * Len(PostalOpts) * Len(OrderOpts)

RawRowAt(i) ==
    LET k0 == i - 1
        k1 == k0 \div Len(AgeOpts)
        k2 == k1 \div Len(CountryOpts)
        k3 == k2 \div Len(PostalOpts)
    IN SetColumn(
       [CUST_ID |-> PyInt(7), CUSTNAME |-> PyStr(<<"A">>),
        ADDRESS1 |-> PyStr(<<"a", "1">>), ADDRESS2 |-> None,
        CITY |-> PyStr(<<"c">>),
        POSTAL_CODE |-> PostalOpts[(k2 % Len(PostalOpts)) + 1],
        POSTAL_CODE_PLUS4 |-> None,
        COUNTRY_CODE |-> CountryOpts[(k1 % Len(CountryOpts)) + 1],
        EMAIL_ADDRESS |-> PyStr(<<"@">>), PHONE_NUMBER |-> PyStr(<<"5">>),
        AGE |-> AgeOpts[(k0 % Len(AgeOpts)) + 1],
        GenderCode |-> PyStr(<<"M", "r", ".">>),
        GENERATION |-> GenerationOpts[(k2 % Len(GenerationOpts)) + 1],
        NATIONALITY |-> PyStr(<<"n">>), NATIONAL_ID |-> PyStr(<<"i">>),
        DRIVER_LICENSE |-> PyStr(<<"d">>),
        ORDER_ID |-> OrderOpts[(k3 % Len(OrderOpts)) + 1]],
       "STATE", PyStr(<<"M", "A">>))

\* the non-decreasing index sequences of at most n entries over 1..m
SortedIndexes(n, m) ==
    {s \in UNION {[1..k -> 1..m] : k \in 0..n} :
        \A i \in 1..(Len(s) - 1) : s[i] <= s[i + 1]}

RawTables ==
    {[i \in 1..Len(s) |-> RawRowAt(s[i])] : s \in SortedIndexes(MaxRows, NumRawRows)}

GeoOpts == <<PyStr(<<"8", "U", "S", "0", "1", "0", "0", "1">>), PyStr(<<"x">>), None>>
IncomeOpts == <<PyInt(40000), PyInt(50000), None>>
NumIncomeRows == Len(GeoOpts) * Len(IncomeOpts)

\* B19049m1 stands for the census columns that the cleansing leaves out
IncomeRowAt(i) ==
    LET k0 == i - 1
        k1 == k0 \div Len(GeoOpts)
    IN [GEOID |-> GeoOpts[(k0 % Len(GeoOpts)) + 1],
        B19049e1 |-> IncomeOpts[(k1 % Len(IncomeOpts)) + 1],
        B19049m1 |-> PyInt(9)]

IncomeTables ==
    {[i \in 1..Len(s) |-> IncomeRowAt(s[i])] :
        s \in SortedIndexes(MaxIncomeRows, NumIncomeRows)}

UdfIdle ==
    /\ arg = None
    /\ fn = ""
    /\ ret = NotCalled

Init ==
    /\ pc = "load_raw"
    /\ raw_df = <<>>
    /\ customer_df = <<>>
    /\ us_customer_df = <<>>
    /\ income_df = <<>>
    /\ shown = <<>>
    /\ UdfIdle

\* raw_df = pixiedust.sampleData(<customers/orders csv>)
LoadRaw ==
    /\ pc = "load_raw"
    /\ raw_df' \in RawTables
    /\ pc' = "select"
    /\ UNCHANGED <<customer_df, us_customer_df, income_df, shown>>
    /\ UNCHANGED udfVars

SelectAndDeduplicate ==
    /\ pc = "select"
    /\ customer_df' = SelectCustomers(raw_df)
    /\ pc' = "cleanse_age"
    /\ UNCHANGED <<raw_df, us_customer_df, income_df, shown>>
    /\ UNCHANGED udfVars

CleanseAge ==
    /\ pc = "cleanse_age"
    /\ AgeRaisesOn(customer_df) = {}
    /\ customer_df' = CleanseAgeOf(customer_df)
    /\ pc' = "derive_gender"
    /\ UNCHANGED <<raw_df, us_customer_df, income_df, shown>>
    /\ UNCHANGED udfVars

\* an exception of the UDF aborts the Spark job and the run with it
CleanseAgeFails ==
    /\ pc = "cleanse_age"
    /\ AgeRaisesOn(customer_df) # {}
    /\ pc' = "failed"
    /\ UNCHANGED <<raw_df, customer_df, us_customer_df, income_df, shown>>
    /\ UNCHANGED udfVars

DeriveGender ==
    /\ pc = "derive_gender"
    /\ customer_df' = DeriveGenderOf(customer_df)
    /\ pc' = "display_generation"
    /\ UNCHANGED <<raw_df, us_customer_df, income_df, shown>>
    /\ UNCHANGED udfVars

\* display(customer_df.filter("GENERATION = '...'")), the condition being the
\* one of the four that the reader left uncommented
DisplayGeneration ==
    /\ pc = "display_generation"
    /\ \E g \in Generations : shown' = filter(customer_df, "GENERATION", g)
    /\ pc' = "display_customers"
    /\ UNCHANGED <<raw_df, customer_df, us_customer_df, income_df>>
    /\ UNCHANGED udfVars

\* display(customer_df)
DisplayCustomers ==
    /\ pc = "display_customers"
    /\ shown' = customer_df
    /\ pc' = "filter_us"
    /\ UNCHANGED <<raw_df, customer_df, us_customer_df, income_df>>
    /\ UNCHANGED udfVars

\* us_customer_df = customer_df.filter("COUNTRY_CODE = 'US'"); display(us_customer_df)
FilterUS ==
    /\ pc = "filter_us"
    /\ us_customer_df' = FilterUSOf(customer_df)
    /\ shown' = us_customer_df'
    /\ pc' = "load_income"
    /\ UNCHANGED <<raw_df, customer_df, income_df>>
    /\ UNCHANGED udfVars

\* income_df = pixiedust.sampleData(<census income csv>)
LoadIncome ==
    /\ pc = "load_income"
    /\ income_df' \in IncomeTables
    /\ pc' = "cleanse_income"
    /\ UNCHANGED <<raw_df, customer_df, us_customer_df, shown>>
    /\ UNCHANGED udfVars

CleanseIncome ==
    /\ pc = "cleanse_income"
    /\ ZipRaisesOn(income_df) = {}
    /\ income_df' = CleanseIncomeOf(income_df)
    /\ pc' = "join"
    /\ UNCHANGED <<raw_df, customer_df, us_customer_df, shown>>
    /\ UNCHANGED udfVars

CleanseIncomeFails ==
    /\ pc = "cleanse_income"
    /\ ZipRaisesOn(income_df) # {}
    /\ pc' = "failed"
    /\ UNCHANGED <<raw_df, customer_df, us_customer_df, income_df, shown>>
    /\ UNCHANGED udfVars

Join ==
    /\ pc = "join"
    /\ us_customer_df' = JoinIncomeOf(us_customer_df, income_df)
    /\ pc' = "display_enriched"
    /\ UNCHANGED <<raw_df, customer_df, income_df, shown>>
    /\ UNCHANGED udfVars

\* display(us_customer_df)
DisplayEnriched ==
    /\ pc = "display_enriched"
    /\ shown' = us_customer_df
    /\ pc' = "done"
    /\ UNCHANGED <<raw_df, customer_df, us_customer_df, income_df>>
    /\ UNCHANGED udfVars

Next ==
    \/ LoadRaw
    \/ SelectAndDeduplicate
    \/ CleanseAge
    \/ CleanseAgeFails
    \/ DeriveGender
    \/ DisplayGeneration
    \/ DisplayCustomers
    \/ FilterUS
    \/ LoadIncome
    \/ CleanseIncome
    \/ CleanseIncomeFails
    \/ Join
    \/ DisplayEnriched

Spec == Init /\ [][Next]_vars

----------------------------------------------------------------------------
(* Claims about the user-defined functions, checked under SpecUDF. *)

Called(f) == fn = f /\ ret # NotCalled

\* s is 'age-' followed by one or more digits and nothing else
IsAgeForm(s) ==
    /\ Len(s) >= 5
    /\ SubSeq(s, 1, 4) = <<"a", "g", "e", "-">>
    /\ AllDigits(SubSeq(s, 5, Len(s)))

\* C1: for every input string s, getNumericVal gives the integer value of s
\* when s parses directly as an integer; otherwise the value of the digits
\* when s is 'age-' followed by one or more digits and nothing else;
\* otherwise null.
C1_AgeNormalizer ==
    (Called("getNumericVal") /\ IsStr(arg)) =>
        LET s == Chars(arg)
        IN IF ~Raised(int(arg)) THEN ret = int(arg)
           ELSE IF IsAgeForm(s)
           THEN ret = Return(PyInt(DecimalValue(SubSeq(s, 5, Len(s)))))
           ELSE ret = Return(None)

\* C2: for every raw value of the AGE or GEOID column (any string, or a
\* missing value), getNumericVal and extractZIPCode return a result and no
\* exception propagates.
C2_ParsingNeverRaises ==
    (Called("getNumericVal") \/ Called("extractZIPCode")) => ~Raised(ret)

\* C3: deriveGender never fails and returns 'male' exactly for "Mr." and
\* "Master.", 'female' exactly for "Mrs." and "Miss.", and 'unknown' for
\* every other input, the empty string and a missing value included.
C3_GenderTotal ==
    Called("deriveGender") =>
        LET isMale == arg \in {PyStr(<<"M", "r", ".">>),
                               PyStr(<<"M", "a", "s", "t", "e", "r", ".">>)}
            isFemale == arg \in {PyStr(<<"M", "r", "s", ".">>),
                                 PyStr(<<"M", "i", "s", "s", ".">>)}
        IN /\ ~Raised(ret)
           /\ Value(ret) \in {PyStr(<<"m", "a", "l", "e">>),
                              PyStr(<<"f", "e", "m", "a", "l", "e">>),
                              PyStr(<<"u", "n", "k", "n", "o", "w", "n">>)}
           /\ (Value(ret) = PyStr(<<"m", "a", "l", "e">>)) <=> isMale
           /\ (Value(ret) = PyStr(<<"f", "e", "m", "a", "l", "e">>)) <=> isFemale
           /\ (Value(ret) = PyStr(<<"u", "n", "k", "n", "o", "w", "n">>))
                  <=> (~isMale /\ ~isFemale)

\* deriveGender was called with "Master." and returned 'male'
C3_Witness ==
    /\ Called("deriveGender")
    /\ arg = PyStr(<<"M", "a", "s", "t", "e", "r", ".">>)
    /\ ret = Return(PyStr(<<"m", "a", "l", "e">>))

\* s is one or more digits, then 'US', then exactly five digits, nothing else
IsGeoForm(s) ==
    /\ Len(s) >= 8
    /\ AllDigits(SubSeq(s, 1, Len(s) - 7))
    /\ SubSeq(s, Len(s) - 6, Len(s) - 5) = <<"U", "S">>
    /\ AllDigits(SubSeq(s, Len(s) - 4, Len(s)))

\* C4: for every input string g, extractZIPCode gives a non-null result if
\* and only if g is one or more digits, 'US', exactly five digits and nothing
\* else, and then the result is those five digits; every other string gives
\* null.
C4_ZipExtractor ==
    (Called("extractZIPCode") /\ IsStr(arg)) =>
        LET g == Chars(arg)
        IN IF IsGeoForm(g)
           THEN ret = Return(PyStr(SubSeq(g, Len(g) - 4, Len(g))))
           ELSE ret = Return(None)

----------------------------------------------------------------------------
(* Claims about the pipeline, checked under Spec. *)

\* the row restricted to the columns cols
Restrict(row, cols) == [c \in cols |-> row[c]]

\* the step taken is the join cell
JoinStep == pc = "join" /\ pc' = "display_enriched"

\* the rows of the income table whose ZIP is (SQL-)equal to the postal code
IncomeMatches(row, income) ==
    {k \in 1..Len(income) :
        /\ row["POSTAL_CODE"] # None
        /\ income[k]["ZIP"] # None
        /\ income[k]["ZIP"] = row["POSTAL_CODE"]}

\* C5: the join never drops a customer row: every row of its left input
\* appears at least once in its output, matched or not.
C5_LeftOuter ==
    [][JoinStep =>
        \A i \in 1..Len(us_customer_df) :
            \E j \in 1..Len(us_customer_df') :
                Restrict(us_customer_df'[j], DOMAIN us_customer_df[i])
                    = us_customer_df[i]]_vars

\* the join has run on a non-empty income table and its output holds a
\* customer with a postal code that no income row matches
C5_Witness ==
    /\ pc = "display_enriched"
    /\ Len(income_df) > 0
    /\ \E j \in 1..Len(us_customer_df) :
          /\ us_customer_df[j]["POSTAL_CODE"] # None
          /\ IncomeMatches(us_customer_df[j], income_df) = {}
          /\ us_customer_df[j]["MEDIAN_INCOME_IN_ZIP"] = None

\* every output row is one left row plus the single column
\* MEDIAN_INCOME_IN_ZIP, whose value is that of a matching income row when
\* there is one and null when there is none
JoinRowsWellFormed(left, income, out) ==
    \A j \in 1..Len(out) :
        \E i \in 1..Len(left) :
            /\ DOMAIN out[j] = DOMAIN left[i] \cup {"MEDIAN_INCOME_IN_ZIP"}
            /\ "MEDIAN_INCOME_IN_ZIP" \notin DOMAIN left[i]
            /\ Restrict(out[j], DOMAIN left[i]) = left[i]
            /\ LET ms == IncomeMatches(left[i], income)
               IN IF ms = {} THEN out[j]["MEDIAN_INCOME_IN_ZIP"] = None
                  ELSE \E k \in ms :
                          out[j]["MEDIAN_INCOME_IN_ZIP"]
                              = income[k]["MEDIAN_INCOME_IN_ZIP"]

\* C6 as stated: ..., and the added field is null exactly when no income row
\* has ZIP equal to the customer's POSTAL_CODE.
C6_JoinValuesAsStated ==
    [][JoinStep =>
        /\ JoinRowsWellFormed(us_customer_df, income_df, us_customer_df')
        /\ \A j \in 1..Len(us_customer_df') :
              (us_customer_df'[j]["MEDIAN_INCOME_IN_ZIP"] = None)
                  <=> (IncomeMatches(us_customer_df'[j], income_df) = {})]_vars

\* C6 (amended): every row of the join output carries the customer fields of
\* one left-input row unchanged plus the single added field
\* MEDIAN_INCOME_IN_ZIP (no GEOID, no ZIP); the field equals the median income
\* of an income row whose ZIP equals the customer's POSTAL_CODE when such a
\* row exists, so it is null when that row's median income is null, and it
\* is null whenever no income row has ZIP equal to the POSTAL_CODE.
C6_JoinValues ==
    [][JoinStep =>
        /\ JoinRowsWellFormed(us_customer_df, income_df, us_customer_df')
        /\ \A j \in 1..Len(us_customer_df') :
              (IncomeMatches(us_customer_df'[j], income_df) = {})
                  => us_customer_df'[j]["MEDIAN_INCOME_IN_ZIP"] = None]_vars

\* the join has run and a customer whose postal code an income row matches
\* got that row's median income, which is null
C6_Witness ==
    /\ pc = "display_enriched"
    /\ \E j \in 1..Len(us_customer_df) :
          /\ IncomeMatches(us_customer_df[j], income_df) # {}
          /\ us_customer_df[j]["MEDIAN_INCOME_IN_ZIP"] = None

\* C7: select + dropDuplicates keeps every distinct combination of the 17
\* customer fields of the raw table exactly once and nothing else.
C7_Deduplication ==
    pc = "cleanse_age" =>
        LET combos == {Restrict(raw_df[i], CustomerColumns) : i \in 1..Len(raw_df)}
        IN /\ RowsOf(customer_df) = combos
           /\ \A row \in combos : Count(customer_df, row) = 1

\* two raw rows that differ only outside the 17 columns became one row
C7_Witness ==
    /\ pc = "cleanse_age"
    /\ Len(raw_df) = 2
    /\ raw_df[1] # raw_df[2]
    /\ Restrict(raw_df[1], CustomerColumns) = Restrict(raw_df[2], CustomerColumns)
    /\ Len(customer_df) = 1

\* the cells that follow the derivation of GENDER
AfterCleansing ==
    pc \in {"display_generation", "display_customers", "filter_us", "load_income",
            "cleanse_income", "join", "display_enriched", "done"}

\* C8: the cleansed customer table (selection, deduplication, age
\* normalization, gender derivation) holds no two rows equal in every field.
C8_CleansedRowsUnique ==
    AfterCleansing =>
        \A i, j \in 1..Len(customer_df) :
            customer_df[i] = customer_df[j] => i = j

\* C9 as stated: after the whole pipeline, every row of the cleansed customer
\* table, whatever its COUNTRY_CODE, appears in the enriched table handed to
\* the Visualizer.
C9_JoinerScopeAsStated ==
    pc = "done" =>
        \A i \in 1..Len(customer_df) :
            \E j \in 1..Len(shown) :
                Restrict(shown[j], DOMAIN customer_df[i]) = customer_df[i]

\* C9 (amended): after the whole pipeline, every row of the cleansed customer
\* table whose COUNTRY_CODE is 'US' appears at least once in the enriched
\* table handed to the Visualizer.
C9_JoinerScope ==
    pc = "done" =>
        \A i \in 1..Len(customer_df) :
            customer_df[i]["COUNTRY_CODE"] = PyStr(<<"U", "S">>) =>
                \E j \in 1..Len(shown) :
                    Restrict(shown[j], DOMAIN customer_df[i]) = customer_df[i]

\* the pipeline has run on a table with a US and a non-US customer, and the
\* enriched table holds the US one only
C9_Witness ==
    /\ pc = "done"
    /\ Len(customer_df) = 2
    /\ Len(shown) = 1
    /\ \E i \in 1..2 : customer_df[i]["COUNTRY_CODE"] = PyStr(<<"U", "S">>)
    /\ \E i \in 1..2 : customer_df[i]["COUNTRY_CODE"] = PyStr(<<"F", "R">>)

\* C10: after the gender-derivation step the customer table has a GENDER
\* column and no GenderCode column any more, the number of columns being
\* what it was (17).
C10_GenderRename ==
    pc = "display_generation" =>
        \A i \in 1..Len(customer_df) :
            /\ "GENDER" \in DOMAIN customer_df[i]
            /\ "GenderCode" \notin DOMAIN customer_df[i]
            /\ Cardinality(DOMAIN customer_df[i]) = Cardinality(CustomerColumns)

\* the number of rows of df that are the row r, resp. that extend it
Extending(df, r) == Cardinality({j \in 1..Len(df) : Restrict(df[j], DOMAIN r) = r})

\* out holds exactly the rows of df whose column col is lit, each as often
\* as df holds it and unchanged
ExactlyTheRowsWith(out, df, col, lit) ==
    /\ \A j \in 1..Len(out) : out[j] \in RowsOf(df)
    /\ \A i \in 1..Len(df) :
          Count(out, df[i]) =
              IF df[i][col] # None /\ df[i][col] = lit THEN Count(df, df[i]) ELSE 0

\* C11: a filter of customer_df (on GENERATION, on COUNTRY_CODE = 'US') and
\* the join of us_customer_df with income_df leave customer_df and income_df
\* as they were, rows and columns, and the filtered table holds exactly the
\* input rows that satisfy the condition, each unchanged.
C11_ImmutableSnapshots ==
    [][/\ (pc = "display_generation" /\ pc' = "display_customers") =>
              /\ customer_df' = customer_df
              /\ income_df' = income_df
              /\ \E g \in {PyStr(<<"B", "a", "b", "y", "_", "B", "o", "o", "m", "e",
                                  "r", "s">>),
                           PyStr(<<"G", "e", "n", "_", "X">>),
                           PyStr(<<"G", "e", "n", "_", "Y">>),
                           PyStr(<<"G", "e", "n", "_", "Z">>)} :
                    ExactlyTheRowsWith(shown', customer_df, "GENERATION", g)
       /\ (pc = "filter_us" /\ pc' = "load_income") =>
              /\ customer_df' = customer_df
              /\ income_df' = income_df
              /\ ExactlyTheRowsWith(us_customer_df', customer_df, "COUNTRY_CODE",
                                    PyStr(<<"U", "S">>))
       /\ JoinStep =>
              /\ customer_df' = customer_df
              /\ income_df' = income_df]_vars

\* the generation filter has just kept one customer of two, and customer_df
\* still holds both
C11_Witness ==
    /\ pc = "display_customers"
    /\ Len(customer_df) = 2
    /\ Len(shown) = 1
    /\ shown[1] \in RowsOf(customer_df)

\* the larger of two numbers
Larger(a, b) == IF a >= b THEN a ELSE b

\* the number of rows of out that are the left row r with median income v
ExtendingWith(out, r, v) ==
    Cardinality({j \in 1..Len(out) :
        Restrict(out[j], DOMAIN r) = r /\ out[j]["MEDIAN_INCOME_IN_ZIP"] = v})

\* C12: the income side is not deduplicated: a customer row of the left
\* input has as many output rows as income rows have its POSTAL_CODE as ZIP,
\* and one when none has; matched by k >= 2 income rows it appears k times,
\* once with each matching income value.  (Equal left rows count together.)
C12_JoinFanOut ==
    [][JoinStep =>
        \A i \in 1..Len(us_customer_df) :
            LET r == us_customer_df[i]
                n == Count(us_customer_df, r)
                ms == IncomeMatches(r, income_df)
            IN /\ Extending(us_customer_df', r) = n * Larger(1, Cardinality(ms))
               /\ \A k \in ms :
                     LET v == income_df[k]["MEDIAN_INCOME_IN_ZIP"]
                     IN ExtendingWith(us_customer_df', r, v) =
                            n * Cardinality({k2 \in ms :
                                    income_df[k2]["MEDIAN_INCOME_IN_ZIP"] = v})]_vars

\* the join has run on two income rows of one ZIP with different incomes, and
\* the one customer of that ZIP is there twice, once with each income
C12_Witness ==
    /\ pc = "display_enriched"
    /\ Len(income_df) = 2
    /\ income_df[1]["ZIP"] # None
    /\ income_df[1]["ZIP"] = income_df[2]["ZIP"]
    /\ Len(us_customer_df) = 2
    /\ Restrict(us_customer_df[1], DOMAIN customer_df[1]) = customer_df[1]
    /\ Restrict(us_customer_df[2], DOMAIN customer_df[1]) = customer_df[1]
    /\ us_customer_df[1]["MEDIAN_INCOME_IN_ZIP"] = PyInt(40000)
    /\ us_customer_df[2]["MEDIAN_INCOME_IN_ZIP"] = PyInt(50000)
    /\ Len(customer_df) = 1

\* the income table without the rows whose ZIP is null
WithZip(income) == SelectSeq(income, LAMBDA row : row["ZIP"] # None)

\* C13: null keys never match in the join: an income row whose ZIP is null
\* is joined to no customer row (every customer has the output rows it would
\* have without those income rows), and a customer row whose POSTAL_CODE is
\* null appears exactly once, with MEDIAN_INCOME_IN_ZIP null, also when the
\* income table has rows with a null ZIP.
C13_NullKeysNeverMatch ==
    [][JoinStep =>
        \A i \in 1..Len(us_customer_df) :
            LET r == us_customer_df[i]
                n == Count(us_customer_df, r)
                keyed == WithZip(income_df)
                ms == {k \in 1..Len(keyed) : keyed[k]["ZIP"] = r["POSTAL_CODE"]}
            IN /\ Extending(us_customer_df', r) = n * Larger(1, Cardinality(ms))
               /\ \A j \in 1..Len(us_customer_df') :
                     Restrict(us_customer_df'[j], DOMAIN r) = r =>
                         \/ /\ ms = {}
                            /\ us_customer_df'[j]["MEDIAN_INCOME_IN_ZIP"] = None
                         \/ \E k \in ms :
                               us_customer_df'[j]["MEDIAN_INCOME_IN_ZIP"]
                                   = keyed[k]["MEDIAN_INCOME_IN_ZIP"]
               /\ r["POSTAL_CODE"] = None =>
                     /\ Extending(us_customer_df', r) = n
                     /\ ExtendingWith(us_customer_df', r, None) = n]_vars

\* the join has run on an income table with a null-ZIP row that has an
\* income, and the one customer, whose POSTAL_CODE is null, is there once
\* with a null income
C13_Witness ==
    /\ pc = "display_enriched"
    /\ \E k \in 1..Len(income_df) :
          /\ income_df[k]["ZIP"] = None
          /\ income_df[k]["MEDIAN_INCOME_IN_ZIP"] # None
    /\ Len(customer_df) = 1
    /\ Len(us_customer_df) = 1
    /\ us_customer_df[1]["POSTAL_CODE"] = None
    /\ us_customer_df[1]["MEDIAN_INCOME_IN_ZIP"] = None

====
